---- MODULE Spec2Model ----
(***************************************************************************)
(* Model of the gemini-image-gen MCP server (generate_images and           *)
(* create_image_html) in its four revisions:                               *)
(*   "desktop"  src/src/index.ts            (Windows-desktop storage)      *)
(*   "crossos"  src/Dockerfile lines 22-349 (per-OS desktop storage)       *)
(*   "staging"  src/unnamed/part_001        (outputDir/subDir, useTemp)    *)
(*   "v1"       src/Dockerfile lines 350-525 (version 1.0.0)               *)
(*                                                                         *)
(* A string is a sequence of tokens.  A token is either one character      *)
(* ("/", "\\", "-", a letter, a digit) or an atom standing for a run of    *)
(* characters that the code never looks inside ("app", "root", "file:",    *)
(* "C:", a timestamp, an HTML literal).  Regular expressions and the node  *)
(* path library are modelled on these token sequences.                     *)
(***************************************************************************)
EXTENDS Integers, Sequences, FiniteSets, TLC

VARIABLES profile, platform, home, clock, inv, probe

vars == <<profile, platform, home, clock, inv, probe>>

----------------------------------------------------------------------------
(* Generic string helpers *)

SL == "/"
BS == "\\"

Last(s) == s[Len(s)]

Front(s) == SubSeq(s, 1, Len(s) - 1)

Drop(s, n) == SubSeq(s, n + 1, Len(s))

StartsWith(s, pre) == Len(s) >= Len(pre) /\ SubSeq(s, 1, Len(pre)) = pre

Contains(s, t) == \E k \in 1..Len(s) : s[k] = t

\* String.prototype.replace(/x/g, y) for a one-character pattern x
ReplaceAll(s, from, to) == [k \in 1..Len(s) |-> IF s[k] = from THEN to ELSE s[k]]

RECURSIVE Flatten(_, _)
\* Array.prototype.join: the parts with sep between them
Flatten(parts, sep) ==
  IF parts = <<>> THEN <<>>
  ELSE IF Len(parts) = 1 THEN parts[1]
  ELSE parts[1] \o sep \o Flatten(Tail(parts), sep)

----------------------------------------------------------------------------
(* The node "path" module, on token strings.  plat is process.platform     *)
(* reduced to "win32" or "posix".                                          *)

Drives == {"C:", "G:"}

IsSep(plat, t) == IF plat = "win32" THEN t \in {SL, BS} ELSE t = SL

Sep(plat) == IF plat = "win32" THEN BS ELSE SL

RECURSIVE Segments(_, _, _)
\* the segments between separators (empty ones included); cur is the segment
\* being read
Segments(plat, s, cur) ==
  IF s = <<>> THEN <<cur>>
  ELSE IF IsSep(plat, Head(s)) THEN <<cur>> \o Segments(plat, Tail(s), <<>>)
  ELSE Segments(plat, Tail(s), Append(cur, Head(s)))

RECURSIVE NormSegs(_, _, _)
\* normalizeString: drops "" and ".", resolves "..", keeps a leading ".."
\* only when allowAboveRoot
NormSegs(segs, acc, allowAboveRoot) ==
  IF segs = <<>> THEN acc
  ELSE LET s == Head(segs)
           rest == Tail(segs)
       IN IF s = <<>> \/ s = <<".">> THEN NormSegs(rest, acc, allowAboveRoot)
          ELSE IF s = <<"..">>
            THEN IF acc # <<>> /\ Last(acc) # <<"..">>
                   THEN NormSegs(rest, Front(acc), allowAboveRoot)
                   ELSE IF allowAboveRoot
                     THEN NormSegs(rest, Append(acc, s), allowAboveRoot)
                     ELSE NormSegs(rest, acc, allowAboveRoot)
            ELSE NormSegs(rest, Append(acc, s), allowAboveRoot)

NormalizeString(plat, s, allowAboveRoot) ==
  Flatten(NormSegs(Segments(plat, s, <<>>), <<>>, allowAboveRoot), <<Sep(plat)>>)

PosixIsAbsolute(s) == Len(s) > 0 /\ s[1] = SL

\* posix.normalize once the segments are resolved into body
PosixAssemble(s, body) ==
  IF body = <<>>
    THEN (IF s[1] = SL THEN <<SL>> ELSE IF Last(s) = SL THEN <<".", SL>> ELSE <<".">>)
    ELSE (IF s[1] = SL THEN <<SL>> ELSE <<>>) \o body
           \o (IF Last(s) = SL THEN <<SL>> ELSE <<>>)

PosixNormalize(s) ==
  IF s = <<>> THEN <<".">>
  ELSE PosixAssemble(s, NormalizeString("posix", s, s[1] # SL))

\* number of tokens of s from position from on that are separators (seps) or
\* are not (~seps)
RECURSIVE RunLen(_, _, _)
RunLen(s, from, seps) ==
  IF from > Len(s) THEN 0
  ELSE IF IsSep("win32", s[from]) = seps THEN 1 + RunLen(s, from + 1, seps)
  ELSE 0

NoRoot == [device |-> <<>>, rootEnd |-> 0, isAbs |-> FALSE, uncOnly |-> FALSE]

\* a UNC root: server s[3..j1-1], separators up to j2, share s[j2..j3-1]
UncRoot(s, j1, j2, j3) ==
  IF j1 > 3 /\ j1 <= Len(s) /\ j2 <= Len(s)
    THEN [device |-> <<BS, BS>> \o SubSeq(s, 3, j1 - 1) \o <<BS>> \o SubSeq(s, j2, j3 - 1),
          rootEnd |-> j3 - 1, isAbs |-> TRUE, uncOnly |-> j3 > Len(s)]
    ELSE [NoRoot EXCEPT !.isAbs = TRUE]

UncShare(s, j1, j2) == UncRoot(s, j1, j2, j2 + RunLen(s, j2, FALSE))

UncSeps(s, j1) == UncShare(s, j1, j1 + RunLen(s, j1, TRUE))

\* win32.normalize's reading of the root: device, tokens consumed, absolute,
\* and whether the path is a UNC root and nothing else
Win32Root(s) ==
  IF s = <<>> THEN NoRoot
  ELSE IF IsSep("win32", s[1])
    THEN IF Len(s) >= 2 /\ IsSep("win32", s[2])
           THEN UncSeps(s, 3 + RunLen(s, 3, FALSE))
           ELSE [NoRoot EXCEPT !.isAbs = TRUE, !.rootEnd = 1]
  ELSE IF s[1] \in Drives
    THEN IF Len(s) >= 2 /\ IsSep("win32", s[2])
           THEN [device |-> <<s[1]>>, rootEnd |-> 2, isAbs |-> TRUE, uncOnly |-> FALSE]
           ELSE [device |-> <<s[1]>>, rootEnd |-> 1, isAbs |-> FALSE, uncOnly |-> FALSE]
  ELSE NoRoot

Win32IsAbsolute(s) ==
  /\ Len(s) > 0
  /\ \/ IsSep("win32", s[1])
     \/ Len(s) >= 2 /\ s[1] \in Drives /\ IsSep("win32", s[2])

\* win32.normalize once the root r is read and the rest is resolved into t0
Win32Assemble(s, r, t0) ==
  IF r.uncOnly THEN Append(r.device, BS)
  ELSE r.device
         \o (IF r.isAbs THEN <<BS>> ELSE <<>>)
         \o (IF t0 = <<>> /\ ~r.isAbs THEN <<".">> ELSE t0)
         \o (IF (t0 # <<>> \/ ~r.isAbs) /\ IsSep("win32", Last(s)) THEN <<BS>> ELSE <<>>)

Win32Tail(s, r) ==
  Win32Assemble(s, r, NormalizeString("win32", Drop(s, r.rootEnd), ~r.isAbs))

Win32Normalize(s) == IF s = <<>> THEN <<".">> ELSE Win32Tail(s, Win32Root(s))

\* win32.join's guard against a joined path being mistaken for a UNC path: n
\* is the number of leading separators of joined
Win32JoinGuard(first, joined, n) ==
  IF /\ n >= 2
     /\ ~(/\ Len(first) > 2
          /\ IsSep("win32", first[1]) /\ IsSep("win32", first[2])
          /\ ~IsSep("win32", first[3]))
    THEN <<BS>> \o Drop(joined, n)
    ELSE joined

Win32JoinFix(first, joined) == Win32JoinGuard(first, joined, RunLen(joined, 1, TRUE))

PathIsAbsolute(plat, s) ==
  IF plat = "win32" THEN Win32IsAbsolute(s) ELSE PosixIsAbsolute(s)

PathNormalize(plat, s) ==
  IF plat = "win32" THEN Win32Normalize(s) ELSE PosixNormalize(s)

JoinParts(plat, parts) ==
  IF parts = <<>> THEN <<".">>
  ELSE IF plat = "win32"
    THEN Win32Normalize(Win32JoinFix(parts[1], Flatten(parts, <<BS>>)))
  ELSE PosixNormalize(Flatten(parts, <<SL>>))

\* path.join(a, b)
PathJoin(plat, a, b) == JoinParts(plat, SelectSeq(<<a, b>>, LAMBDA x : x # <<>>))

\* path.basename(s)
PathBasename(plat, s) ==
  LET body == IF plat = "win32" /\ s # <<>> /\ s[1] \in Drives THEN Tail(s) ELSE s
      segs == SelectSeq(Segments(plat, body, <<>>), LAMBDA x : x # <<>>)
  IN IF segs = <<>> THEN <<>> ELSE Last(segs)

----------------------------------------------------------------------------
(* Process environment *)

\* process.cwd(): the image's WORKDIR, or the checkout on Windows
Cwd(plat) == IF plat = "win32" THEN <<"G:", BS, "srv">> ELSE <<SL, "app">>

\* os.tmpdir()
TmpDir(plat) == IF plat = "win32" THEN <<"C:", BS, "Temp">> ELSE <<SL, "tmp">>

\* path.resolve drops a trailing separator unless the path is a root
ResolveTrim(plat, n) ==
  IF /\ Len(n) > 1
     /\ IsSep(plat, Last(n))
     /\ ~(Len(n) = 2 /\ n[1] \in Drives)
     /\ ~(plat = "win32" /\ Win32Root(n).uncOnly)
    THEN Front(n) ELSE n

\* the path that path.resolve normalizes: s made absolute against cwd
ResolveAgainst(plat, cwd, s) ==
  IF plat = "posix" THEN (IF PosixIsAbsolute(s) THEN s ELSE cwd \o <<SL>> \o s)
  ELSE IF s # <<>> /\ s[1] \in Drives
    THEN (IF Win32IsAbsolute(s) THEN s
          ELSE IF s[1] = cwd[1] THEN cwd \o <<BS>> \o Tail(s)
          ELSE <<s[1], BS>> \o Tail(s))
  ELSE IF s # <<>> /\ IsSep(plat, s[1])
    THEN (IF Win32Root(s).device # <<>> THEN s ELSE <<cwd[1]>> \o s)
  ELSE cwd \o <<BS>> \o s

\* path.resolve(s)
PathResolve(plat, s) ==
  ResolveTrim(plat, PathNormalize(plat, ResolveAgainst(plat, Cwd(plat), s)))

----------------------------------------------------------------------------
(* Path resolver *)

Profiles == {"desktop", "crossos", "staging", "v1"}

\* the revisions that have a path normalizer
NormalizerProfiles == {"desktop", "crossos", "staging"}

\* the revisions whose create_image_html takes a gallery argument
GalleryProfiles == {"desktop", "crossos"}

AppPrefix == <<SL, "app", SL>>
RootPrefix == <<SL, "root", SL>>
RootPrefixBS == <<BS, "root", BS>>
FileScheme == <<"file:", SL, SL>>

\* String.prototype.replace(/^(p1|p2|...)/, ''): the first alternative that
\* matches at the start is removed
StripPrefix(s, prefixes) ==
  LET hits == SelectSeq(prefixes, LAMBDA pre : StartsWith(s, pre))
  IN IF hits = <<>> THEN s ELSE Drop(s, Len(hits[1]))

RECURSIVE CollapseDoubleBS(_)
\* String.prototype.replace(/\\\\/g, '\\'): every pair of backslashes, read
\* left to right without overlap, becomes one backslash
CollapseDoubleBS(s) ==
  IF Len(s) < 2 THEN s
  ELSE IF s[1] = BS /\ s[2] = BS THEN <<BS>> \o CollapseDoubleBS(Drop(s, 2))
  ELSE <<s[1]>> \o CollapseDoubleBS(Tail(s))

\* getWindowsDesktopPath / getUserDesktopPath: the Desktop folder of the home
\* directory (USERPROFILE or os.homedir()); no XDG user-dirs file is present
DesktopPath(plat, hm) == PathJoin(plat, hm, <<"Desktop">>)

getImageStorageDir(plat, hm) ==
  PathJoin(plat, DesktopPath(plat, hm), <<"AI-Generated-Images">>)

normalizeFilePathDesktop(plat, hm, filePath) ==
  LET stripped == StripPrefix(filePath, <<AppPrefix, RootPrefix>>)
      joined == IF ~PathIsAbsolute(plat, stripped)
                  THEN PathJoin(plat, getImageStorageDir(plat, hm), stripped)
                  ELSE stripped
  IN ReplaceAll(joined, SL, BS)

normalizeFilePathCrossOs(plat, hm, filePath) ==
  LET stripped == StripPrefix(filePath, <<AppPrefix, RootPrefix, RootPrefixBS>>)
      joined == IF ~PathIsAbsolute(plat, stripped)
                  THEN PathJoin(plat, getImageStorageDir(plat, hm), stripped)
                  ELSE stripped
  IN PathNormalize(plat, joined)

normalizeFilePathStaging(filePath) ==
  LET noApp == StripPrefix(filePath, <<AppPrefix>>)
      bs == ReplaceAll(noApp, SL, BS)
      noScheme == StripPrefix(bs, <<FileScheme>>)
  IN CollapseDoubleBS(noScheme)

\* the active revision's normalizeFilePath
normalizeFilePath(prof, plat, hm, filePath) ==
  IF prof = "desktop" THEN normalizeFilePathDesktop(plat, hm, filePath)
  ELSE IF prof = "crossos" THEN normalizeFilePathCrossOs(plat, hm, filePath)
  ELSE normalizeFilePathStaging(filePath)

getWebPathDesktop(plat, hm, filePath) ==
  FileScheme \o normalizeFilePathDesktop(plat, hm, filePath)

getWebPathCrossOs(plat, hm, filePath) ==
  FileScheme \o ReplaceAll(normalizeFilePathCrossOs(plat, hm, filePath), BS, SL)

getWebPath(prof, plat, hm, filePath) ==
  IF prof = "desktop" THEN getWebPathDesktop(plat, hm, filePath)
  ELSE getWebPathCrossOs(plat, hm, filePath)

----------------------------------------------------------------------------
(* File names *)

SanitizeLimit == 30

LowerAlnum == {"a", "b", "i", "x", "0", "1", "2"}

\* String.prototype.toLowerCase on the characters of the model
ToLowerChar(c) == IF c = "A" THEN "a" ELSE IF c = "B" THEN "b" ELSE c

\* the lower-case form of one character: U+0130 becomes two characters
LowerOf(c) == IF c = "U+0130" THEN <<"i", "U+0307">> ELSE <<ToLowerChar(c)>>

\* String.prototype.toLowerCase
ToLowerCase(str) == Flatten([k \in 1..Len(str) |-> LowerOf(str[k])], <<>>)

\* the sanitization without its slice(0, 30)
sanitizedPromptUncut(prompt) ==
  [k \in 1..Len(ToLowerCase(prompt)) |->
     IF ToLowerCase(prompt)[k] \in LowerAlnum THEN ToLowerCase(prompt)[k] ELSE "-"]

\* prompt.toLowerCase().replace(/[^a-z0-9]/g, '-').slice(0, 30)
sanitizedPrompt(prompt) ==
  LET lower == ToLowerCase(prompt)
      dashed == [k \in 1..Len(lower) |-> IF lower[k] \in LowerAlnum THEN lower[k] ELSE "-"]
  IN SubSeq(dashed, 1, IF Len(dashed) < SanitizeLimit THEN Len(dashed) ELSE SanitizeLimit)

\* new Date().toISOString().replace(/[:.]/g, '-') at clock reading t
Timestamp(t) == <<"T", ToString(t)>>

\* `${sanitizedPrompt}-${timestamp}-${idx}.png`
ImageFileName(prompt, ts, idx) ==
  sanitizedPrompt(prompt) \o <<"-">> \o ts \o <<"-", ToString(idx), ".png">>

----------------------------------------------------------------------------
(* Requests, results and errors *)

InvIds == {1, 2}

ToolNames == {"generate_images", "create_image_html", "delete_images"}

\* an optional argument: <<>> when the caller omits it, <<v>> when given
Opt(S) == {<<>>} \cup {<<v>> : v \in S}

\* a destructuring default: `name = d`
OrDefault(opt, d) == IF opt = <<>> THEN d ELSE opt[1]

MaxEntries == 3
MaxPaths == 2
MaxClock == 1

Prompts == {<<"a">>, <<"A", " ", "1">>}

\* caller-supplied directory strings (category, outputDir, subDir)
DirArgs == {<<>>, <<"cat">>, <<SL, "app", SL, "x">>}

\* caller-supplied image paths
ImgPaths == {<<"a">>, <<SL, "app", SL, "x", SL, "a">>}

SizeArgs == {64}

NumberArgs == 1..4

DefaultSize == 512

DefaultNumberOfImages == 1

\* "G:\\image-gen3-google-mcp-server\\images"
DefaultOutputDir == <<"G:", BS, "srv", BS, "images">>

\* a generated-image entry either carries image.imageBytes or does not
EntryKinds == {"bytes", "nobytes"}

RECURSIVE SeqsUpTo(_, _)
SeqsUpTo(S, n) ==
  IF n = 0 THEN {<<>>}
  ELSE LET shorter == SeqsUpTo(S, n - 1)
       IN shorter \cup {Append(q, x) : q \in {t \in shorter : Len(t) = n - 1}, x \in S}

\* response.generatedImages: <<>> when the field is absent, <<entries>> else
Responses == Opt(SeqsUpTo(EntryKinds, MaxEntries))

Envs ==
  { [platform |-> "win32", home |-> <<"C:", BS, "Users">>],
    [platform |-> "posix", home |-> <<SL, "home">>],
    [platform |-> "posix", home |-> <<SL, "root">>] }

NoOutcome ==
  [kind |-> "none", code |-> 0, message |-> <<>>, files |-> <<>>, html |-> <<>>]

\* new McpError(code, message): the SDK prefixes the message with the code
McpError(code, message) ==
  [kind |-> "McpError", code |-> code,
   message |-> <<"MCP error ", ToString(code), ": ">> \o message,
   files |-> <<>>, html |-> <<>>]

\* a lower-level exception leaving the handler as it was thrown
RawError(message) ==
  [kind |-> "raw", code |-> 0, message |-> message, files |-> <<>>, html |-> <<>>]

ToolResult(message, files, html) ==
  [kind |-> "result", code |-> 0, message |-> message, files |-> files, html |-> html]

IdleInv ==
  [pc |-> "idle", tool |-> "", prompt |-> <<>>, numberOfImages |-> <<>>,
   dirArg |-> <<>>, subDir |-> <<>>, imagePaths |-> <<>>, width |-> <<>>,
   height |-> <<>>, flag |-> <<>>,
   outputDir |-> <<>>, outputRaw |-> FALSE, pending |-> <<>>, response |-> <<>>,
   k |-> 0, idx |-> 0, timestamp |-> <<>>, generatedFiles |-> <<>>,
   tempDir |-> <<>>, tempPaths |-> <<>>, present |-> {},
   ops |-> <<>>, calls |-> 0, sent |-> <<>>, reply |-> "none", thrown |-> <<>>,
   outcome |-> NoOutcome]

\* a filesystem operation: op on path (dest is a copy's destination); raw says
\* that the path is built from a caller-supplied string that did not pass
\* through normalizeFilePath
FsOp(op, path, raw) == [op |-> op, path |-> path, dest |-> <<>>, raw |-> raw]

CopyOp(src, dest, raw) == [op |-> "copy", path |-> src, dest |-> dest, raw |-> raw]

\* a dispatch whose last branch is the image generator
DispatchOrGenerate(name) ==
  IF name = "create_image_html" THEN "html" ELSE "generate"

\* the tool the CallToolRequestSchema handler runs for a tool name
Dispatch(name) ==
  IF name = "generate_images" THEN "generate"
  ELSE IF name = "create_image_html" THEN "html"
  ELSE "notfound"

\* a try block without its catch: the error leaves the handler as thrown
Rethrow(r, errMsg) ==
  [r EXCEPT !.pc = "done", !.thrown = <<errMsg>>, !.outcome = RawError(errMsg)]

\* catch (error) { throw new McpError(2, `Failed to generate images: ${errMsg}`) }
CatchGenerate(r, errMsg) ==
  [r EXCEPT !.pc = "done", !.thrown = <<errMsg>>,
            !.outcome = McpError(2, <<"Failed to generate images: ">> \o errMsg)]

\* catch (error) { throw new McpError(2, `Failed to create HTML: ${errMsg}`) }
CatchHtml(r, errMsg) ==
  [r EXCEPT !.pc = "done", !.thrown = <<errMsg>>,
            !.outcome = McpError(2, <<"Failed to create HTML: ">> \o errMsg)]

----------------------------------------------------------------------------
(* generate_images *)

\* `sub ? path.join(baseDir, sub) : baseDir`, and whether the result is built
\* from a caller-supplied string that did not pass through normalizeFilePath
JoinIfGiven(plat, baseDir, sub) ==
  IF sub # <<>> THEN [path |-> PathJoin(plat, baseDir, sub), raw |-> TRUE]
  ELSE [path |-> baseDir, raw |-> FALSE]

\* the directory the request resolves to
TargetDir(prof, plat, hm, r) ==
  IF prof \in {"desktop", "crossos"}
    THEN JoinIfGiven(plat, getImageStorageDir(plat, hm), OrDefault(r.dirArg, <<>>))
  ELSE IF prof = "staging"
    THEN JoinIfGiven(plat, normalizeFilePathStaging(OrDefault(r.dirArg, DefaultOutputDir)),
                     OrDefault(r.subDir, <<>>))
  ELSE [path |-> OrDefault(r.dirArg, DefaultOutputDir), raw |-> r.dirArg # <<>>]

\* the directory the image files are written into
WriteDir(prof, r) == IF prof = "v1" THEN DefaultOutputDir ELSE r.outputDir

\* whether the path handed to the file write is built from a raw caller string
WriteRaw(prof, r) == IF prof = "v1" THEN FALSE ELSE r.outputRaw

\* the path pushed onto generatedFiles for a written file
ReportedPath(prof, plat, hm, filename) ==
  IF prof = "desktop" THEN ReplaceAll(filename, SL, BS)
  ELSE IF prof = "crossos" THEN normalizeFilePathCrossOs(plat, hm, filename)
  ELSE filename

\* the message of the tool result
GenerateMessage(prof, plat, r) ==
  <<"Successfully generated ", ToString(Len(r.generatedFiles)), " images">>
    \o (IF prof = "desktop"
          THEN <<" on your Windows Desktop in AI-Generated-Images">>
                 \o (IF OrDefault(r.dirArg, <<>>) # <<>>
                       THEN <<BS>> \o OrDefault(r.dirArg, <<>>) ELSE <<>>)
        ELSE IF prof = "crossos"
          THEN <<" in AI-Generated-Images">>
                 \o (IF OrDefault(r.dirArg, <<>>) # <<>>
                       THEN <<Sep(plat)>> \o OrDefault(r.dirArg, <<>>) ELSE <<>>)
                 \o <<" on your Desktop">>
        ELSE <<>>)

GenerateReturn(prof, plat, r) ==
  [r EXCEPT !.pc = "done",
            !.outcome = ToolResult(GenerateMessage(prof, plat, r), r.generatedFiles, <<>>)]

\* a loop without its `continue`: every entry is taken
SkipNone(entries, k) == k

RECURSIVE SkipTo(_, _)
\* the first position from k on whose entry carries image bytes (Len + 1 when
\* there is none): the loop's `continue` on an entry without them
SkipTo(entries, k) ==
  IF k > Len(entries) THEN k
  ELSE IF entries[k] = "bytes" THEN k
  ELSE SkipTo(entries, k + 1)

\* path.join(dir, `${sanitizedPrompt}-${timestamp}-${idx}.png`)
FileNameFor(prof, plat, r) ==
  PathJoin(plat, WriteDir(prof, r), ImageFileName(r.prompt, r.timestamp, r.idx))

\* the file write for the entry at position j is started
StartWrite(prof, plat, r, j) ==
  [r EXCEPT !.k = j,
            !.ops = Append(@, FsOp("write", FileNameFor(prof, plat, r), WriteRaw(prof, r)))]

\* a push that leaves idx as it is
PushFileSameIndex(prof, plat, hm, r) ==
  [r EXCEPT !.generatedFiles = Append(@, ReportedPath(prof, plat, hm, FileNameFor(prof, plat, r)))]

\* generatedFiles.push(...); idx++
PushFile(prof, plat, hm, r) ==
  [r EXCEPT !.generatedFiles = Append(@, ReportedPath(prof, plat, hm, FileNameFor(prof, plat, r))),
            !.idx = @ + 1]

AsyncAt(prof, plat, r, j) ==
  IF j > Len(r.response) THEN GenerateReturn(prof, plat, r)
  ELSE [StartWrite(prof, plat, r, j) EXCEPT !.pc = "gen_write"]

\* the for loop up to its next `await fs.promises.writeFile`, or to the return
AsyncLoop(prof, plat, r) == AsyncAt(prof, plat, r, SkipTo(r.response, r.k + 1))

RECURSIVE SyncLoop(_, _, _, _, _)

\* fs.writeFileSync for the current entry: the write numbered failAt throws
SyncWrite(prof, plat, hm, r, failAt) ==
  IF r.idx = failAt THEN CatchGenerate(r, <<"ENOSPC">>)
  ELSE SyncLoop(prof, plat, hm, PushFile(prof, plat, hm, r), failAt)

SyncAt(prof, plat, hm, r, failAt, j) ==
  IF j > Len(r.response) THEN GenerateReturn(prof, plat, r)
  ELSE SyncWrite(prof, plat, hm, StartWrite(prof, plat, r, j), failAt)

\* the for loop with fs.writeFileSync, to the return or to the throw
SyncLoop(prof, plat, hm, r, failAt) ==
  SyncAt(prof, plat, hm, r, failAt, SkipTo(r.response, r.k + 1))

\* ai.models.generateImages({prompt, config: {numberOfImages}}) is issued; the
\* handler does not read numberOfImages again
IssueCall(r) ==
  [r EXCEPT !.pc = "gen_call", !.calls = @ + 1, !.numberOfImages = <<>>,
            !.sent = <<OrDefault(r.numberOfImages, DefaultNumberOfImages)>>]

\* if (!fs.existsSync(path)) fs.mkdirSync(path, {recursive: true}); a failure
\* of mkdirSync is kept in pending
EnsureDirSync(r, path, raw, dirExists, mkdirFails) ==
  [r EXCEPT !.ops = @ \o (IF dirExists THEN <<FsOp("exists", path, raw)>>
                          ELSE <<FsOp("exists", path, raw), FsOp("mkdir", path, raw)>>),
            !.pending = IF ~dirExists /\ mkdirFails THEN <<<<"EACCES">>>> ELSE <<>>]

\* the try block goes on after a synchronous step, or the catch block runs
ThenIssueCall(r) ==
  IF r.pending # <<>> THEN CatchGenerate(r, r.pending[1]) ELSE IssueCall(r)

\* the handler from its entry to its first await, once the directory t is known
EnterWithDir(prof, r, t, dirExists, mkdirFails) ==
  IF prof \in {"desktop", "crossos"}
    THEN [r EXCEPT !.outputDir = t.path, !.outputRaw = t.raw, !.pc = "gen_mkdir",
                   !.ops = Append(@, FsOp("mkdir", t.path, t.raw))]
  ELSE IF prof = "staging"
    THEN EnsureDirSync([r EXCEPT !.outputDir = t.path, !.outputRaw = t.raw,
                                 !.pc = "gen_mkdir"],
                       normalizeFilePathStaging(t.path), FALSE, dirExists, mkdirFails)
  ELSE ThenIssueCall(EnsureDirSync([r EXCEPT !.outputDir = t.path, !.outputRaw = t.raw],
                                   t.path, t.raw, dirExists, mkdirFails))

\* the handler from its entry to its first await
GenerateEnter(prof, plat, hm, r, dirExists, mkdirFails) ==
  EnterWithDir(prof, r, TargetDir(prof, plat, hm, r), dirExists, mkdirFails)

\* the loop starts: synchronous writes run to the end, awaited ones to the
\* first await
StartLoop(prof, plat, hm, r, failAt) ==
  IF prof \in {"desktop", "crossos"} THEN AsyncLoop(prof, plat, r)
  ELSE SyncLoop(prof, plat, hm, r, failAt)

\* the handler after the service answered: the check of generatedImages, the
\* timestamp, and the loop
GenerateOnResponse(prof, plat, hm, r, resp, now, failAt) ==
  IF resp = <<>>
    THEN CatchGenerate([r EXCEPT !.sent = <<>>, !.reply = "absent"],
                       McpError(2, <<"No images were generated">>).message)
    ELSE StartLoop(prof, plat, hm,
                   [r EXCEPT !.response = resp[1], !.k = 0, !.idx = 1, !.sent = <<>>,
                             !.reply = "entries",
                             !.timestamp = Timestamp(now), !.generatedFiles = <<>>],
                   failAt)

\* the writes that may be the one to throw in a loop of synchronous writes
\* (0: none does)
FailPoints(prof, resp) ==
  IF prof \in {"desktop", "crossos"} \/ resp = <<>> THEN {0} ELSE 0..Len(resp[1])

----------------------------------------------------------------------------
(* create_image_html *)

ImgTag(src, w, h) ==
  <<"<img src=\"">> \o src
    \o <<"\" width=\"", ToString(w), "\" height=\"", ToString(h),
         "\" alt=\"Generated image\" style=\"margin: 10px;\" />">>

ContainerTag(src) ==
  <<"ws", "<div class=\"image-container\">", "ws", "<img src=\"">> \o src
    \o <<"\" alt=\"Generated image\" loading=\"lazy\" />", "ws", "</div>", "ws">>

GalleryStyle(w, h) ==
  <<"ws", "<style>", ".image-gallery {}", ".image-container {}",
    ".image-container:hover {}", ".image-container img { width: ", ToString(w),
    "px; height: ", ToString(h), "px; }", "</style>", "ws">>

\* whether the request asks for the gallery (only two revisions know it)
GalleryOn(prof, r) == prof \in GalleryProfiles /\ OrDefault(r.flag, TRUE)

\* whether the request asks for temp staging (only one revision knows it)
UseTemp(prof, r) == prof = "staging" /\ OrDefault(r.flag, TRUE)

\* the src attribute for one path to render
ImgSrc(prof, plat, hm, imagePath) ==
  IF prof \in GalleryProfiles
    THEN getWebPath(prof, plat, hm, normalizeFilePath(prof, plat, hm, imagePath))
  ELSE IF prof = "staging" THEN FileScheme \o normalizeFilePathStaging(imagePath)
  ELSE FileScheme \o PathResolve(plat, imagePath)

\* the markup for one image
TagFor(prof, r, src) ==
  IF GalleryOn(prof, r) THEN ContainerTag(src)
  ELSE ImgTag(src, OrDefault(r.width, DefaultSize), OrDefault(r.height, DefaultSize))

\* the tags of the paths taken from the last to the first
HtmlTagsReversed(prof, plat, hm, r, paths) ==
  [k \in 1..Len(paths) |-> TagFor(prof, r, ImgSrc(prof, plat, hm, paths[Len(paths) + 1 - k]))]

\* imagePaths.map(imagePath => ...): one tag per path, in order
HtmlTags(prof, plat, hm, r, paths) ==
  [k \in 1..Len(paths) |-> TagFor(prof, r, ImgSrc(prof, plat, hm, paths[k]))]

\* the html field of the result, from the joined tags
WrapHtml(prof, r, joined) ==
  IF GalleryOn(prof, r)
    THEN GalleryStyle(OrDefault(r.width, DefaultSize), OrDefault(r.height, DefaultSize))
           \o <<"<div class=\"image-gallery\">">> \o joined \o <<"</div>">>
    ELSE joined

HtmlOf(prof, plat, hm, r, paths) ==
  WrapHtml(prof, r, Flatten(HtmlTags(prof, plat, hm, r, paths), <<"\n">>))

HtmlMessage(prof, r) ==
  IF prof \in GalleryProfiles
    THEN <<"Created HTML gallery with ", ToString(Len(r.imagePaths)), " images">>
    ELSE <<"Created HTML tags for ", ToString(Len(r.imagePaths)), " images">>

\* the fs.existsSync checks made while the tags are built
ExistsOps(prof, plat, hm, paths) ==
  IF prof \in GalleryProfiles
    THEN [k \in 1..Len(paths) |-> FsOp("exists", normalizeFilePath(prof, plat, hm, paths[k]), FALSE)]
    ELSE <<>>

\* the tags are built from paths and the result is returned
HtmlRender(prof, plat, hm, r, paths) ==
  [r EXCEPT !.pc = "done",
            !.ops = @ \o ExistsOps(prof, plat, hm, paths),
            !.outcome = ToolResult(HtmlMessage(prof, r), <<>>, HtmlOf(prof, plat, hm, r, paths))]

\* createTempImageDir's directory name at clock reading now
TempDirAt(plat, now) ==
  PathJoin(plat, PathJoin(plat, TmpDir(plat), <<"mcp-image-gen">>), Timestamp(now))

\* copyToTemp's destination for a source path
TempPathFor(plat, tempDir, sourcePath) ==
  PathJoin(plat, tempDir, PathBasename(plat, sourcePath))

\* createTempImageDir up to the await on it
TempEnter(r, tempDir, dirExists, mkdirFails) ==
  EnsureDirSync([r EXCEPT !.pc = "html_tmp", !.tempDir = tempDir], tempDir, FALSE,
                dirExists, mkdirFails)

\* the handler from its entry to its first await (or to its return)
HtmlEnter(prof, plat, hm, r, now, dirExists, mkdirFails) ==
  IF UseTemp(prof, r) THEN TempEnter(r, TempDirAt(plat, now), dirExists, mkdirFails)
  ELSE HtmlRender(prof, plat, hm, r, r.imagePaths)

\* copyToTemp for every source: every copy is started, and a copy of a file
\* that is not on disk throws
CopyAllFrom(plat, r, srcs) ==
  [r EXCEPT !.pc = "html_copy",
            !.tempPaths = [k \in 1..Len(srcs) |-> TempPathFor(plat, r.tempDir, srcs[k])],
            !.ops = @ \o [k \in 1..Len(srcs) |->
                            CopyOp(srcs[k], TempPathFor(plat, r.tempDir, srcs[k]), FALSE)],
            !.pending = IF \E k \in 1..Len(srcs) : srcs[k] \notin r.present
                          THEN <<<<"ENOENT">>>> ELSE <<>>]

\* Promise.all(imagePaths.map(p => copyToTemp(normalizeFilePath(p), tempDir)))
HtmlCopyAll(plat, r) ==
  CopyAllFrom(plat, r, [k \in 1..Len(r.imagePaths) |-> normalizeFilePathStaging(r.imagePaths[k])])

----------------------------------------------------------------------------
(* The request handler *)

\* the arguments a caller may send with a tool name
RequestArgs(prof, name) ==
  IF name = "create_image_html"
    THEN [prompt : {<<>>}, numberOfImages : {<<>>}, dirArg : {<<>>}, subDir : {<<>>},
          imagePaths : SeqsUpTo(ImgPaths, MaxPaths), width : Opt(SizeArgs),
          height : Opt(SizeArgs), flag : Opt(BOOLEAN)]
    ELSE [prompt : Prompts, numberOfImages : Opt(NumberArgs), dirArg : Opt(DirArgs),
          subDir : IF prof = "staging" THEN Opt(DirArgs) ELSE {<<>>},
          imagePaths : {<<>>}, width : {<<>>}, height : {<<>>}, flag : {<<>>}]

NewInv(name, a, present) ==
  [IdleInv EXCEPT !.tool = name, !.present = present, !.prompt = a.prompt, !.numberOfImages = a.numberOfImages,
                  !.dirArg = a.dirArg, !.subDir = a.subDir, !.imagePaths = a.imagePaths,
                  !.width = a.width, !.height = a.height, !.flag = a.flag]

\* server.setRequestHandler(CallToolRequestSchema, ...) from its entry to its
\* first await, return or throw
HandleCall(prof, plat, hm, r, now, dirExists, mkdirFails) ==
  LET tool == Dispatch(r.tool)
  IN IF tool = "generate" THEN GenerateEnter(prof, plat, hm, r, dirExists, mkdirFails)
     ELSE IF tool = "html" THEN HtmlEnter(prof, plat, hm, r, now, dirExists, mkdirFails)
     ELSE [r EXCEPT !.pc = "done", !.outcome = McpError(1, <<"Tool not found">>)]

\* the files a create_image_html request names, as the revision looks them up
NamedFiles(prof, plat, hm, paths) ==
  IF prof \in NormalizerProfiles
    THEN {normalizeFilePath(prof, plat, hm, paths[k]) : k \in 1..Len(paths)}
    ELSE {}

\* the sets of image files a request may find on disk
PresentSets(prof, plat, hm, name, a) ==
  IF name = "create_image_html" THEN SUBSET NamedFiles(prof, plat, hm, a.imagePaths)
  ELSE {{}}

\* no path is being put through the path resolver on its own
NoProbe == [input |-> <<>>, out |-> <<>>, again |-> <<>>, applied |-> 0]

AllIdle == \A j \in InvIds : inv[j].pc = "idle"

Env == <<profile, platform, home>>

ReceiveRequest(i) ==
  /\ inv[i].pc = "idle"
  /\ \E name \in ToolNames, dirExists \in BOOLEAN, mkdirFails \in BOOLEAN :
       \E a \in RequestArgs(profile, name) :
       \E present \in PresentSets(profile, platform, home, name, a) :
         inv' = [inv EXCEPT ![i] = HandleCall(profile, platform, home,
                                              NewInv(name, a, present),
                                              clock, dirExists, mkdirFails)]
  /\ UNCHANGED <<Env, clock, probe>>

\* the awaited directory creation settles
MkdirSettled(i) ==
  /\ inv[i].pc = "gen_mkdir"
  /\ \E fails \in BOOLEAN :
       inv' = [inv EXCEPT ![i] =
                 ThenIssueCall(IF profile # "staging" /\ fails
                                 THEN [inv[i] EXCEPT !.pending = <<<<"EACCES">>>>]
                                 ELSE inv[i])]
  /\ UNCHANGED <<Env, clock, probe>>

\* the awaited service call rejects
ServiceFails(i) ==
  /\ inv[i].pc = "gen_call"
  /\ inv' = [inv EXCEPT ![i] = CatchGenerate([inv[i] EXCEPT !.sent = <<>>, !.reply = "rejected"],
                                             <<"fetch failed">>)]
  /\ UNCHANGED <<Env, clock, probe>>

\* the awaited service call resolves
ServiceResponds(i) ==
  /\ inv[i].pc = "gen_call"
  /\ \E resp \in Responses :
     \E failAt \in FailPoints(profile, resp) :
       inv' = [inv EXCEPT ![i] = GenerateOnResponse(profile, platform, home, inv[i],
                                                    resp, clock, failAt)]
  /\ UNCHANGED <<Env, clock, probe>>

\* a failed write that is noted while the loop goes on with the next entry
WriteSettledGoesOn(i) ==
  /\ inv[i].pc = "gen_write"
  /\ \E fails \in BOOLEAN :
       inv' = [inv EXCEPT ![i] =
                 IF fails THEN AsyncLoop(profile, platform,
                                         [inv[i] EXCEPT !.thrown = <<<<"ENOSPC">>>>])
                 ELSE AsyncLoop(profile, platform,
                                PushFile(profile, platform, home, inv[i]))]
  /\ UNCHANGED <<Env, clock, probe>>

\* the awaited fs.promises.writeFile settles
WriteSettled(i) ==
  /\ inv[i].pc = "gen_write"
  /\ \E fails \in BOOLEAN :
       inv' = [inv EXCEPT ![i] =
                 IF fails THEN CatchGenerate(inv[i], <<"ENOSPC">>)
                 ELSE AsyncLoop(profile, platform,
                                PushFile(profile, platform, home, inv[i]))]
  /\ UNCHANGED <<Env, clock, probe>>

\* the awaited createTempImageDir settles
TempDirSettled(i) ==
  /\ inv[i].pc = "html_tmp"
  /\ inv' = [inv EXCEPT ![i] = IF inv[i].pending # <<>>
                                 THEN CatchHtml(inv[i], inv[i].pending[1])
                                 ELSE HtmlCopyAll(platform, inv[i])]
  /\ UNCHANGED <<Env, clock, probe>>

\* the awaited Promise.all of the copies settles
CopiesSettled(i) ==
  /\ inv[i].pc = "html_copy"
  /\ inv' = [inv EXCEPT ![i] = IF inv[i].pending # <<>>
                                 THEN CatchHtml(inv[i], inv[i].pending[1])
                                 ELSE HtmlRender(profile, platform, home, inv[i],
                                                 inv[i].tempPaths)]
  /\ UNCHANGED <<Env, clock, probe>>

\* the result or the error is sent back and the invocation is over
Deliver(i) ==
  /\ inv[i].pc = "done"
  /\ inv' = [inv EXCEPT ![i] = IdleInv]
  /\ UNCHANGED <<Env, clock, probe>>

\* time passes
Tick ==
  /\ clock < MaxClock
  /\ clock' = clock + 1
  /\ UNCHANGED <<Env, inv, probe>>

Init ==
  /\ profile \in Profiles
  /\ \E e \in Envs : platform = e.platform /\ home = e.home
  /\ clock = 0
  /\ inv = [i \in InvIds |-> IdleInv]
  /\ probe = NoProbe

\* a client that sends one request at a time and waits for its answer
Next ==
  \/ \E i \in InvIds : AllIdle /\ i = 1 /\ ReceiveRequest(i)
  \/ \E i \in InvIds : MkdirSettled(i)
  \/ \E i \in InvIds : ServiceFails(i)
  \/ \E i \in InvIds : ServiceResponds(i)
  \/ \E i \in InvIds : WriteSettled(i)
  \/ \E i \in InvIds : TempDirSettled(i)
  \/ \E i \in InvIds : CopiesSettled(i)
  \/ \E i \in InvIds : Deliver(i)
  \/ Tick

Spec == Init /\ [][Next]_vars

----------------------------------------------------------------------------
(* The path resolver on its own: one raw path is put through                *)
(* normalizeFilePath, and its result is put through it again.              *)

MaxPathLen == 4

PathTokens == {SL, BS, "app", "root", "file:", "a", ".."}

\* the raw path strings a caller may send
RawPaths == SeqsUpTo(PathTokens, MaxPathLen)

PathInit ==
  /\ profile \in NormalizerProfiles
  /\ \E e \in Envs : platform = e.platform /\ home = e.home
  /\ clock = 0
  /\ inv = [i \in InvIds |-> IdleInv]
  /\ probe \in {[NoProbe EXCEPT !.input = p] : p \in RawPaths}

ApplyResolver ==
  /\ probe.applied = 0
  /\ probe' = [probe EXCEPT !.out = normalizeFilePath(profile, platform, home, probe.input),
                            !.applied = 1]
  /\ UNCHANGED <<Env, clock, inv>>

ApplyResolverAgain ==
  /\ probe.applied = 1
  /\ probe' = [probe EXCEPT !.again = normalizeFilePath(profile, platform, home, probe.out),
                            !.applied = 2]
  /\ UNCHANGED <<Env, clock, inv>>

PathNext == ApplyResolver \/ ApplyResolverAgain

PathSpec == PathInit /\ [][PathNext]_vars

----------------------------------------------------------------------------
(* Properties of the request handler *)

Finished(r, name) == r.pc = "done" /\ r.tool = name

Succeeded(r, name) == Finished(r, name) /\ r.outcome.kind = "result"

\* the file writes an invocation made
Writes(r) == SelectSeq(r.ops, LAMBDA o : o.op = "write")

\* the positions of the response entries that carry an image payload
Payload(r) == {k \in 1..Len(r.response) : r.response[k] = "bytes"}

Distinct(q) == \A a, b \in 1..Len(q) : a # b => q[a] # q[b]

WritesMatchPayload(r, w) ==
  /\ Len(w) = Cardinality(Payload(r))
  /\ Distinct([k \in 1..Len(w) |-> w[k].path])
  /\ Len(r.outcome.files) = Len(w)
  /\ r.outcome.message[2] = ToString(Len(r.outcome.files))

\* C1: a generate_images invocation that returns normally has written exactly
\* as many files as the response has entries with an image payload, no two of
\* them under the same name, and the count in its message is the length of the
\* returned files list.
C1_FilesMatchPayload ==
  \A i \in InvIds :
    Succeeded(inv[i], "generate_images") => WritesMatchPayload(inv[i], Writes(inv[i]))

\* a batch of two written files around an entry without a payload
C1_Witness ==
  \E i \in InvIds :
    /\ Succeeded(inv[i], "generate_images")
    /\ inv[i].response = <<"bytes", "nobytes", "bytes">>
    /\ Len(inv[i].outcome.files) = 2

NoCollection(r) ==
  r.reply = "absent" \/ (r.reply = "entries" /\ r.response = <<>>)

IsError(r, code) == r.outcome.kind = "McpError" /\ r.outcome.code = code

\* C2: when the service's response has an empty or an absent image collection,
\* generate_images ends in the generation error and has written no file.
C2_EmptyOrAbsentFails ==
  \A i \in InvIds :
    (Finished(inv[i], "generate_images") /\ NoCollection(inv[i]))
      => (IsError(inv[i], 2) /\ Writes(inv[i]) = <<>>)

KnownTools == {"generate_images", "create_image_html"}

NoSideEffect(r) == r.ops = <<>> /\ r.calls = 0 /\ r.sent = <<>>

\* C3: a call that names any tool other than the two known ones ends in the
\* tool-not-found error, without any file operation and without any call to
\* the image service.
C3_UnknownToolNotFound ==
  \A i \in InvIds :
    (inv[i].pc # "idle" /\ inv[i].tool \notin KnownTools)
      => /\ inv[i].pc = "done"
         /\ inv[i].outcome = McpError(1, <<"Tool not found">>)
         /\ NoSideEffect(inv[i])

C3_Witness ==
  \E i \in InvIds :
    /\ Finished(inv[i], "delete_images")
    /\ IsError(inv[i], 1)

IsSubSeq(sub, q) ==
  \E k \in 0..(Len(q) - Len(sub)) : SubSeq(q, k + 1, k + Len(sub)) = sub

FailurePrefix(name) ==
  IF name = "generate_images" THEN <<"MCP error ", "2", ": ", "Failed to generate images: ">>
  ELSE <<"MCP error ", "2", ": ", "Failed to create HTML: ">>

Wrapped(r, errMsg) ==
  /\ r.pc = "done"
  /\ IsError(r, 2)
  /\ StartsWith(r.outcome.message, FailurePrefix(r.tool))
  /\ IsSubSeq(errMsg, r.outcome.message)

\* C4: an error thrown inside a tool handler leaves the handler only as that
\* tool's operation-failed error (code 2), whose message contains the message
\* of the error that was thrown; no invocation ends in a raw exception.
C4_FailuresWrapped ==
  \A i \in InvIds :
    /\ inv[i].outcome.kind # "raw"
    /\ inv[i].thrown # <<>> => Wrapped(inv[i], inv[i].thrown[1])

\* the second file write of a batch failed and the failure has been wrapped
C4_Witness ==
  \E i \in InvIds :
    /\ inv[i].thrown = <<<<"ENOSPC">>>>
    /\ IsError(inv[i], 2)
    /\ Len(Writes(inv[i])) = 2

\* C5: no file-system operation is applied to a path built from a caller's
\* string that did not pass through normalizeFilePath.
C5_OpsOnNormalizedPaths ==
  \A i \in InvIds : \A k \in 1..Len(inv[i].ops) : ~inv[i].ops[k].raw

----------------------------------------------------------------------------
(* Properties of the path resolver *)

\* C6: normalizeFilePath applied to its own result returns that result.
C6_NormalizeIdempotent ==
  probe.applied = 2 => probe.again = probe.out

\* the base storage directory of a revision
BaseDir(prof, plat, hm) ==
  IF prof = "staging" THEN DefaultOutputDir ELSE getImageStorageDir(plat, hm)

\* p is base or lies below it, whichever separator either is written with
Under(p, base) ==
  \/ ReplaceAll(p, BS, SL) = ReplaceAll(base, BS, SL)
  \/ StartsWith(ReplaceAll(p, BS, SL), ReplaceAll(base, BS, SL) \o <<SL>>)

\* C7: for every input string normalizeFilePath returns an absolute path that
\* lies under the base storage directory.
C7_AbsoluteUnderBase ==
  probe.applied >= 1
    => /\ Win32IsAbsolute(probe.out) \/ PosixIsAbsolute(probe.out)
       /\ Under(probe.out, BaseDir(profile, platform, home))

----------------------------------------------------------------------------
(* Properties of the rendered HTML *)

CountTok(q, t) == Cardinality({k \in 1..Len(q) : q[k] = t})

\* the position of the first t in q after position from (Len + 1 when none)
RECURSIVE NextTok(_, _, _)
NextTok(q, t, from) ==
  IF from >= Len(q) THEN Len(q) + 1
  ELSE IF q[from + 1] = t THEN from + 1
  ELSE NextTok(q, t, from + 1)

\* the src attributes of the container images of q, in the order of q
RECURSIVE SrcsFrom(_, _)
SrcsFrom(q, from) ==
  IF NextTok(q, "<img src=\"", from) > Len(q) THEN <<>>
  ELSE <<SubSeq(q, NextTok(q, "<img src=\"", from) + 1,
                NextTok(q, "\" alt=\"Generated image\" loading=\"lazy\" />",
                        NextTok(q, "<img src=\"", from)) - 1)>>
         \o SrcsFrom(q, NextTok(q, "<img src=\"", from))

\* the plain tags for the paths of r, with each src the file:// form of the
\* normalized path (web: with forward slashes)
PlainTags(prof, plat, hm, r, web) ==
  Flatten([k \in 1..Len(r.imagePaths) |->
             ImgTag(FileScheme \o (IF web
                                     THEN ReplaceAll(normalizeFilePath(prof, plat, hm, r.imagePaths[k]), BS, SL)
                                     ELSE normalizeFilePath(prof, plat, hm, r.imagePaths[k])),
                    OrDefault(r.width, DefaultSize), OrDefault(r.height, DefaultSize))],
          <<"\n">>)

PlainRequest(prof, r) ==
  /\ Succeeded(r, "create_image_html")
  /\ prof \in NormalizerProfiles
  /\ r.flag = <<FALSE>>

\* C8: with the gallery off, the HTML is one img tag per input path, in input
\* order and joined by newlines, each with the requested width and height and
\* with the file:// form of the normalized input path as its src.
C8_PlainTags ==
  \A i \in InvIds :
    PlainRequest(profile, inv[i])
      => inv[i].outcome.html \in {PlainTags(profile, platform, home, inv[i], FALSE),
                                  PlainTags(profile, platform, home, inv[i], TRUE)}

GalleryRequest(prof, r) ==
  /\ Succeeded(r, "create_image_html")
  /\ prof \in GalleryProfiles
  /\ r.flag \in {<<>>, <<TRUE>>}

GalleryShape(h, n) ==
  /\ CountTok(h, "<style>") = 1
  /\ CountTok(h, "</style>") = 1
  /\ CountTok(h, "<div class=\"image-gallery\">") = 1
  /\ NextTok(h, "<style>", 0) < NextTok(h, "</style>", 0)
  /\ NextTok(h, "</style>", 0) < NextTok(h, "<div class=\"image-gallery\">", 0)
  /\ CountTok(h, "<div class=\"image-container\">") = n
  /\ CountTok(h, "<img src=\"") = n
  /\ CountTok(h, "</div>") = n + 1
  /\ Last(h) = "</div>"
  /\ \A k \in 1..Len(h) :
       h[k] = "<div class=\"image-container\">"
         => k > NextTok(h, "<div class=\"image-gallery\">", 0)

\* C9: with the gallery on or omitted, the HTML is exactly one style block,
\* followed by exactly one div.image-gallery that holds exactly one
\* div.image-container per input path, in input order.
C9_GalleryStructure ==
  \A i \in InvIds :
    GalleryRequest(profile, inv[i])
      => /\ GalleryShape(inv[i].outcome.html, Len(inv[i].imagePaths))
         /\ SrcsFrom(inv[i].outcome.html, 0)
              = [k \in 1..Len(inv[i].imagePaths) |->
                   ImgSrc(profile, platform, home, inv[i].imagePaths[k])]

\* a gallery of two different images
C9_Witness ==
  \E i \in InvIds :
    /\ GalleryRequest(profile, inv[i])
    /\ Len(inv[i].imagePaths) = 2
    /\ inv[i].imagePaths[1] # inv[i].imagePaths[2]

\* the file a revision looks up for an input path
FileFor(prof, plat, hm, imagePath) ==
  IF prof \in NormalizerProfiles THEN normalizeFilePath(prof, plat, hm, imagePath)
  ELSE PathResolve(plat, imagePath)

MissingFile(prof, plat, hm, r) ==
  \E k \in 1..Len(r.imagePaths) : FileFor(prof, plat, hm, r.imagePaths[k]) \notin r.present

\* C10: a create_image_html request that names a file which is not on disk
\* still returns its HTML, with a tag for every input path (a failure to
\* create the temp directory aside).
C10_MissingFileSoft ==
  \A i \in InvIds :
    (/\ Finished(inv[i], "create_image_html")
     /\ MissingFile(profile, platform, home, inv[i])
     /\ inv[i].thrown # <<<<"EACCES">>>>)
      => /\ inv[i].outcome.kind = "result"
         /\ CountTok(inv[i].outcome.html, "<img src=\"") = Len(inv[i].imagePaths)

----------------------------------------------------------------------------
(* A client that does not wait: the transport hands every request to the    *)
(* handler as it arrives, so a request may arrive while another invocation  *)
(* is suspended on an await.  The requests are kept short here.             *)

\* the arguments of a short request: no sizes, no count, no subDir, at most one
\* image path
ShortArgs(prof, name) ==
  {a \in RequestArgs(prof, name) :
     /\ a.numberOfImages = <<>>
     /\ a.subDir = <<>>
     /\ a.dirArg \in {<<>>, <<<<"cat">>>>}
     /\ a.width = <<>>
     /\ a.height = <<>>
     /\ Len(a.imagePaths) <= 1}

\* the short answers of the service: at most one entry
ShortResponses == {resp \in Responses : resp = <<>> \/ Len(resp[1]) <= 1}

\* a short request arrives and its handler runs to its first await
ReceiveShort(i) ==
  /\ inv[i].pc = "idle"
  /\ \E name \in ToolNames, dirExists \in BOOLEAN, mkdirFails \in BOOLEAN :
       \E a \in ShortArgs(profile, name) :
       \E present \in PresentSets(profile, platform, home, name, a) :
         inv' = [inv EXCEPT ![i] = HandleCall(profile, platform, home,
                                              NewInv(name, a, present),
                                              clock, dirExists, mkdirFails)]
  /\ UNCHANGED <<Env, clock, probe>>

\* the awaited service call resolves with a short answer
ServiceRespondsShort(i) ==
  /\ inv[i].pc = "gen_call"
  /\ \E resp \in ShortResponses :
     \E failAt \in FailPoints(profile, resp) :
       inv' = [inv EXCEPT ![i] = GenerateOnResponse(profile, platform, home, inv[i],
                                                    resp, clock, failAt)]
  /\ UNCHANGED <<Env, clock, probe>>

PipeNext ==
  \/ \E i \in InvIds : ReceiveShort(i)
  \/ \E i \in InvIds : MkdirSettled(i)
  \/ \E i \in InvIds : ServiceFails(i)
  \/ \E i \in InvIds : ServiceRespondsShort(i)
  \/ \E i \in InvIds : WriteSettled(i)
  \/ \E i \in InvIds : TempDirSettled(i)
  \/ \E i \in InvIds : CopiesSettled(i)
  \/ \E i \in InvIds : Deliver(i)
  \/ Tick

PipeSpec == Init /\ [][PipeNext]_vars

\* an invocation that has started and has neither returned nor thrown
Suspended(r) == r.pc \notin {"idle", "done"}

\* C11: tool invocations run one at a time: while an invocation is suspended
\* on an await (directory creation, the service call, a file write), no other
\* invocation has started.
C11_OneAtATime ==
  \A i, j \in InvIds :
    (i # j /\ Suspended(inv[i])) => inv[j].pc = "idle"

\* the paths an invocation has handed to a file write
WrittenPaths(r) == {Writes(r)[k].path : k \in 1..Len(Writes(r))}

\* C12: two different generate_images invocations never write the same
\* destination file, whatever their prompts, target directories and clock
\* readings.
C12_DisjointWrites ==
  \A i, j \in InvIds :
    (i # j /\ inv[i].tool = "generate_images" /\ inv[j].tool = "generate_images")
      => WrittenPaths(inv[i]) \cap WrittenPaths(inv[j]) = {}

----------------------------------------------------------------------------
(* The file-name sanitization on its own: one prompt is sanitized, and the  *)
(* result is sanitized again.                                               *)

MaxPromptLen == 3

PromptChars == {"a", "A", "1", " ", "U+0130"}

\* prompts of a few characters, and prompts around the length limit
ProbePrompts ==
  SeqsUpTo(PromptChars, MaxPromptLen)
    \cup {[k \in 1..(SanitizeLimit - 1) |-> c] \o q :
            c \in PromptChars, q \in SeqsUpTo(PromptChars, MaxPromptLen)}

SanitizeInit ==
  /\ profile \in Profiles
  /\ \E e \in Envs : platform = e.platform /\ home = e.home
  /\ clock = 0
  /\ inv = [i \in InvIds |-> IdleInv]
  /\ probe \in {[NoProbe EXCEPT !.input = p] : p \in ProbePrompts}

ApplySanitize ==
  /\ probe.applied = 0
  /\ probe' = [probe EXCEPT !.out = sanitizedPrompt(probe.input), !.applied = 1]
  /\ UNCHANGED <<Env, clock, inv>>

ApplySanitizeAgain ==
  /\ probe.applied = 1
  /\ probe' = [probe EXCEPT !.again = sanitizedPrompt(probe.out), !.applied = 2]
  /\ UNCHANGED <<Env, clock, inv>>

SanitizeNext == ApplySanitize \/ ApplySanitizeAgain

SanitizeSpec == SanitizeInit /\ [][SanitizeNext]_vars

\* the characters of [a-z0-9-]
FileNameChars ==
  {"a", "b", "c", "d", "e", "f", "g", "h", "i", "j", "k", "l", "m", "n", "o", "p", "q",
   "r", "s", "t", "u", "v", "w", "x", "y", "z", "0", "1", "2", "3", "4", "5", "6", "7",
   "8", "9", "-"}

\* C13: the sanitized prompt has only characters of [a-z0-9-] and at most 30
\* of them, and sanitizing it again returns it unchanged.
C13_SanitizeIdempotent ==
  /\ probe.applied >= 1
       => /\ \A k \in 1..Len(probe.out) : probe.out[k] \in FileNameChars
          /\ Len(probe.out) <= SanitizeLimit
  /\ probe.applied = 2 => probe.again = probe.out

\* a prompt longer than the limit, with a character that is replaced, has been
\* sanitized twice
C13_Witness ==
  /\ probe.applied = 2
  /\ Len(probe.input) > SanitizeLimit
  /\ Contains(probe.input, "U+0130")
  /\ Len(probe.out) = SanitizeLimit
  /\ Contains(probe.out, "-")

----------------------------------------------------------------------------
(* The src attributes *)

\* the tokens that close a src attribute in the two tag templates
SrcClosers ==
  {"\" width=\"", "\" alt=\"Generated image\" loading=\"lazy\" />"}

\* the position of the first token of toks in q after position from
RECURSIVE NextAmong(_, _, _)
NextAmong(q, toks, from) ==
  IF from >= Len(q) THEN Len(q) + 1
  ELSE IF q[from + 1] \in toks THEN from + 1
  ELSE NextAmong(q, toks, from + 1)

\* the src attribute that opens at position at
SrcAt(q, at) == SubSeq(q, at + 1, NextAmong(q, SrcClosers, at) - 1)

\* the src attributes of all img tags of q
AllSrcs(q) == {SrcAt(q, at) : at \in {k \in 1..Len(q) : q[k] = "<img src=\""}}

\* C14: every src written into the HTML is a file:// URL without any
\* backslash: the normalized path with its backslashes turned into slashes.
C14_SrcHasNoBackslash ==
  \A i \in InvIds :
    Succeeded(inv[i], "create_image_html")
      => \A src \in AllSrcs(inv[i].outcome.html) :
           StartsWith(src, FileScheme) /\ ~Contains(src, BS)

----------------------------------------------------------------------------
(* Temp staging *)

\* the copies an invocation has started
Copies(r) == SelectSeq(r.ops, LAMBDA o : o.op = "copy")

\* the copies were given pairwise different source files, all on disk
DistinctSources(r, c) ==
  /\ Distinct(r.imagePaths)
  /\ Distinct([k \in 1..Len(c) |-> c[k].path])
  /\ \A k \in 1..Len(c) : c[k].path \in r.present

\* C15: with temp staging, the copies of n different source files go to n
\* pairwise different destinations in the staging directory.
C15_StagedDestinationsDistinct ==
  \A i \in InvIds :
    (Copies(inv[i]) # <<>> /\ DistinctSources(inv[i], Copies(inv[i])))
      => Distinct([k \in 1..Len(Copies(inv[i])) |-> Copies(inv[i])[k].dest])

----------------------------------------------------------------------------
(* File names of a batch *)

\* the file name at the end of path p carries timestamp ts and index j
NamedWith(p, ts, j) ==
  /\ Len(p) >= 5
  /\ Last(p) = ".png"
  /\ p[Len(p) - 1] = ToString(j)
  /\ p[Len(p) - 2] = "-"
  /\ SubSeq(p, Len(p) - 4, Len(p) - 3) = ts

\* the writes w carry one timestamp and the indices 1, 2, ... in their order
NumberedInOrder(r, w) ==
  \A j \in 1..Len(w) : NamedWith(w[j].path, r.timestamp, j)

\* C16: the files one generate_images invocation writes share one timestamp
\* and carry the indices 1, 2, ..., k in response order, k being the number of
\* files written; an entry without a payload takes no index.
C16_SharedTimestampAndIndices ==
  \A i \in InvIds :
    /\ inv[i].tool = "generate_images" => NumberedInOrder(inv[i], Writes(inv[i]))
    /\ Succeeded(inv[i], "generate_images")
         => Len(Writes(inv[i])) = Cardinality(Payload(inv[i]))

\* two files written after a skipped entry, the clock having moved on since
\* the timestamp was taken
C16_Witness ==
  \E i \in InvIds :
    /\ Succeeded(inv[i], "generate_images")
    /\ inv[i].response = <<"nobytes", "bytes", "bytes">>
    /\ Len(Writes(inv[i])) = 2
    /\ inv[i].timestamp = Timestamp(0)
    /\ clock = 1

----------------------------------------------------------------------------
(* Where the files go *)

\* p names a file directly inside dir, whichever separator either is written
\* with (the empty dir is the working directory)
DirectlyInside(p, dir) ==
  IF dir = <<>> THEN p # <<>> /\ ~Contains(ReplaceAll(p, BS, SL), SL)
  ELSE /\ StartsWith(ReplaceAll(p, BS, SL), ReplaceAll(dir, BS, SL) \o <<SL>>)
       /\ ~Contains(Drop(ReplaceAll(p, BS, SL), Len(dir) + 1), SL)
       /\ Len(p) > Len(dir) + 1

AllInside(paths, dir) == \A k \in 1..Len(paths) : DirectlyInside(paths[k], dir)

\* C17: every file generate_images writes, and every path of its files list,
\* lies directly inside the directory that the invocation resolved from the
\* request and created.
C17_FilesInTargetDir ==
  \A i \in InvIds :
    inv[i].tool = "generate_images"
      => /\ AllInside([k \in 1..Len(Writes(inv[i])) |-> Writes(inv[i])[k].path],
                      inv[i].outputDir)
         /\ AllInside(inv[i].outcome.files, inv[i].outputDir)

----------------------------------------------------------------------------
(* No retry *)

\* the failed write is the last file operation, and it follows the writes of
\* the files that were pushed
FailedWriteIsLast(r) ==
  /\ Len(Writes(r)) = Len(r.generatedFiles) + 1
  /\ Last(r.ops).op = "write"

\* one step of a generate_images invocation, from r to r2
NoRetryStep(r, r2) ==
  /\ r2.calls <= 1
  /\ r.thrown # <<>> => r2 \in {r, IdleInv}
  /\ r2.thrown # <<>> => r2.pc = "done" /\ IsError(r2, 2)
  /\ r2.reply \in {"rejected", "absent"} => Writes(r2) = <<>>
  /\ r2.thrown = <<<<"ENOSPC">>>> => FailedWriteIsLast(r2)

\* C18: a generate_images invocation calls the service at most once, and the
\* first failing service call or file write ends it with an error at once:
\* no service call and no file write follows the failure.
C18_NoRetry ==
  [][\A i \in InvIds :
       inv'[i].tool \in {"", "generate_images"} => NoRetryStep(inv[i], inv'[i])]_vars

\* the second of three writes failed and the third was never started
C18_Witness ==
  \E i \in InvIds :
    /\ inv[i].tool = "generate_images"
    /\ inv[i].response = <<"bytes", "bytes", "bytes">>
    /\ inv[i].thrown = <<<<"ENOSPC">>>>
    /\ Len(inv[i].generatedFiles) = 1
    /\ inv[i].calls = 1

====
